---- MODULE Spec2Model ----
(***************************************************************************)
(* Surgery Risk Management System (src/app.py).                            *)
(*                                                                         *)
(* The patient store is st.session_state.patients, a list of dicts that    *)
(* the four pages of main() read and that patient_registration() appends   *)
(* to.  Each run of the script renders one page; `outcome' is what that    *)
(* run rendered.  SurgeryRiskCalculator is a pair of pure functions; they  *)
(* are operators here, and the specification SpecScore applies them to     *)
(* inputs drawn by its initial condition.                                  *)
(*                                                                         *)
(* Numbers with two decimals (bmi) are integers counting hundredths;       *)
(* the mortality estimate counts tenths.  Text that the code formats and   *)
(* parses (names, selectbox labels) is a sequence of one-character strings.*)
(***************************************************************************)
EXTENDS Integers, Sequences, FiniteSets, TLC

VARIABLES
    patients,   \* st.session_state.patients
    outcome,    \* what the current script run rendered
    args,       \* SpecScore: the arguments of calculate_risk_score
    score,      \* SpecScore: a risk score
    category,   \* SpecScore: the category of `score'
    pc          \* SpecScore: which of the two functions has been applied

vars == <<patients, outcome, args, score, category, pc>>

-----------------------------------------------------------------------------
(* Bounds of the model *)

MaxPatients == 2

MaxProbe == 50

-----------------------------------------------------------------------------
(* Arithmetic helpers *)

Min(a, b) == IF a < b THEN a ELSE b

RECURSIVE SumOver(_, _)
SumOver(f, S) ==
    IF S = {} THEN 0
    ELSE LET x == CHOOSE y \in S : TRUE IN f[x] + SumOver(f, S \ {x})

-----------------------------------------------------------------------------
(* Text: sequences of characters *)

\* The characters the model uses, in ascending code-point order.
Alphabet ==
    <<" ", "(", ")", "0", "1", "2", "3", "4", "5", "6", "7", "8", "9",
      ":", "A", "D", "I">>

Ord(c) == CHOOSE i \in DOMAIN Alphabet : Alphabet[i] = c

Digits == <<"0", "1", "2", "3", "4", "5", "6", "7", "8", "9">>

IsDigit(c) == \E i \in DOMAIN Digits : Digits[i] = c

DigitValue(c) == (CHOOSE i \in DOMAIN Digits : Digits[i] = c) - 1

\* str.__lt__ : lexicographic comparison by code point
RECURSIVE StrLess(_, _)
StrLess(s, t) ==
    IF t = <<>> THEN FALSE
    ELSE IF s = <<>> THEN TRUE
    ELSE IF Ord(Head(s)) # Ord(Head(t)) THEN Ord(Head(s)) < Ord(Head(t))
    ELSE StrLess(Tail(s), Tail(t))

\* str(n) for n >= 0, as the f-string of line 140 formats p['id']
RECURSIVE IntToStr(_)
IntToStr(n) ==
    IF n < 10 THEN <<Digits[n + 1]>>
    ELSE IntToStr(n \div 10) \o <<Digits[(n % 10) + 1]>>

\* s.find(sep) + 1 : position of the first occurrence of sep, 0 when none
IndexOf(s, sep) ==
    LET hits == {i \in 1..(Len(s) - Len(sep) + 1) :
                    SubSeq(s, i, i + Len(sep) - 1) = sep}
    IN IF hits = {} THEN 0 ELSE CHOOSE i \in hits : \A j \in hits : i <= j

\* s.split(sep) : the list of pieces between the occurrences of sep
RECURSIVE Split(_, _)
Split(s, sep) ==
    LET i == IndexOf(s, sep)
    IN IF i = 0 THEN <<s>>
       ELSE <<SubSeq(s, 1, i - 1)>> \o Split(SubSeq(s, i + Len(sep), Len(s)), sep)

\* s.strip() on the whitespace of the alphabet
RECURSIVE LStrip(_)
LStrip(s) == IF s # <<>> /\ Head(s) = " " THEN LStrip(Tail(s)) ELSE s

RECURSIVE RStrip(_)
RStrip(s) ==
    IF s # <<>> /\ s[Len(s)] = " " THEN RStrip(SubSeq(s, 1, Len(s) - 1)) ELSE s

Strip(s) == RStrip(LStrip(s))

\* int(s) accepts surrounding whitespace and a non-empty run of digits
\* (signs and underscores are not in the alphabet); anything else raises
\* ValueError.
IntParses(s) == Strip(s) # <<>> /\ \A i \in DOMAIN Strip(s) : IsDigit(Strip(s)[i])

RECURSIVE DigitsToInt(_)
DigitsToInt(s) ==
    IF s = <<>> THEN 0
    ELSE 10 * DigitsToInt(SubSeq(s, 1, Len(s) - 1)) + DigitValue(s[Len(s)])

ParseInt(s) == DigitsToInt(Strip(s))

-----------------------------------------------------------------------------
(* SurgeryRiskCalculator *)

Comorbidities ==
    {"Diabetes", "Hypertension", "Heart Disease", "Kidney Disease",
     "Lung Disease", "Cancer", "Blood Disorders", "Liver Disease"}

SurgeryTypes == {"Minor", "Moderate", "Major", "Complex"}

AsaClasses == 1..5

\* Lines 21-25: the age factor
AgeFactor(age) ==
    IF age < 18 THEN 1
    ELSE IF age < 40 THEN 2
    ELSE IF age < 65 THEN 4
    ELSE 7

\* Lines 27-30: the BMI factor.  The elif chain tests > 30 before > 35, so
\* the branch that adds 6 is never taken.  bmi is in hundredths.
BmiFactor(bmi) ==
    IF bmi < 1850 THEN 3
    ELSE IF bmi > 3000 THEN 4
    ELSE IF bmi > 3500 THEN 6
    ELSE 0

\* Lines 36-39: surgery_scores.get(surgery_type, 3)
SurgeryScore(surgery_type) ==
    CASE surgery_type = "Minor" -> 1
      [] surgery_type = "Moderate" -> 3
      [] surgery_type = "Major" -> 6
      [] surgery_type = "Complex" -> 9
      [] OTHER -> 3

UncappedScore(age, bmi, comorbidities, surgery_type, asa_class) ==
    AgeFactor(age) + BmiFactor(bmi) + Cardinality(comorbidities) * 2
        + SurgeryScore(surgery_type) + asa_class * 2

\* calculate_risk_score without the final min(score, 30)
calculate_risk_score_uncapped(age, bmi, comorbidities, surgery_type, asa_class) ==
    UncappedScore(age, bmi, comorbidities, surgery_type, asa_class)

calculate_risk_score(age, bmi, comorbidities, surgery_type, asa_class) ==
    Min(UncappedScore(age, bmi, comorbidities, surgery_type, asa_class), 30)

\* get_risk_category with the first band ending below 8
get_risk_category_strict(s) ==
    IF s < 8 THEN "Low"
    ELSE IF s <= 15 THEN "Moderate"
    ELSE IF s <= 22 THEN "High"
    ELSE "Critical"

\* Lines 47-51: the category of get_risk_category's result (the glyph that
\* comes with it is fixed by the category).
get_risk_category(s) ==
    IF s <= 8 THEN "Low"
    ELSE IF s <= 15 THEN "Moderate"
    ELSE IF s <= 22 THEN "High"
    ELSE "Critical"

Categories == {"Low", "Moderate", "High", "Critical"}

\* The ordinal position of a category, for statements about monotonicity.
CategoryRank(cat) ==
    CASE cat = "Low" -> 0
      [] cat = "Moderate" -> 1
      [] cat = "High" -> 2
      [] cat = "Critical" -> 3

-----------------------------------------------------------------------------
(* bmi = weight / ((height/100) ** 2), round(bmi, 2), in hundredths *)

\* The quotient weight*10^6 / height^2 rounded to the nearest integer.  When
\* the quotient lies exactly halfway between two hundredths the float that
\* the division produces may fall on either side, so both roundings are
\* possible results.
RoundedBmi(height, weight) ==
    LET n == weight * 1000000
        d == height * height
        q == n \div d
        r == n % d
    IN IF 2 * r > d THEN {q + 1}
       ELSE IF 2 * r < d THEN {q}
       ELSE {q, q + 1}


-----------------------------------------------------------------------------
(* The inputs of the model *)

NameA == <<"A">>

\* The name "ID: 2)": a name may contain the text the label is parsed by.
NameWithMarker == <<"I", "D", ":", " ", "2", ")">>

\* st.text_input("Full Name*") : any text, the empty text included
RegNames == {<<>>, NameA, NameWithMarker}

\* The other widgets of the form, within the ranges the widgets enforce
\* (lines 79-97).  Dates are days counted from today.
RegForms ==
    { [age |-> 30, height |-> 170, weight |-> 70, surgery_date |-> 1,
       surgery_type |-> "Minor", asa_class |-> 1, emergency |-> FALSE,
       comorbidities |-> {}],
      [age |-> 70, height |-> 170, weight |-> 110, surgery_date |-> 2,
       surgery_type |-> "Major", asa_class |-> 3, emergency |-> TRUE,
       comorbidities |-> {"Diabetes", "Hypertension"}],
      [age |-> 30, height |-> 170, weight |-> 50, surgery_date |-> 2,
       surgery_type |-> "Major", asa_class |-> 1, emergency |-> FALSE,
       comorbidities |-> {}] }

\* Arguments of calculate_risk_score: the ages at and next to each branch,
\* bodies whose bmi falls in, at and next to each band, every subset of the
\* comorbidities, every surgery type and ASA class.
ArgAges == {1, 17, 18, 39, 40, 64, 65, 120}

ArgBodies ==
    { <<170, 70>>, <<170, 50>>, <<170, 90>>, <<170, 110>>, <<200, 74>>,
      <<100, 30>>, <<100, 35>>, <<50, 300>>, <<250, 20>> }

ArgBmis == UNION {RoundedBmi(b[1], b[2]) : b \in ArgBodies}

ArgSpace ==
    [age : ArgAges, bmi : ArgBmis, comorbidities : SUBSET Comorbidities,
     surgery_type : SurgeryTypes, asa_class : AsaClasses]

NoArgs ==
    [age |-> 1, bmi |-> 0, comorbidities |-> {}, surgery_type |-> "Minor",
     asa_class |-> 1]

-----------------------------------------------------------------------------
(* The patient store and the four pages *)

\* Line 105: the form is taken when it was submitted with a non-empty name
\* (this variant forgets the name).
Accepted_any_name(submitted, name) == submitted

Accepted(submitted, name) == submitted /\ name # <<>>

\* Line 107 without the + 1 on a non-empty store
NextId_no_increment(ps) == IF ps = <<>> THEN 1 ELSE Len(ps)

\* Line 107: patient_id = len(st.session_state.patients) + 1
NextId(ps) == Len(ps) + 1

\* list.insert(0, patient) in place of append
StoreAppend_front(ps, p) == <<p>> \o ps

\* Line 129: st.session_state.patients.append(patient)
StoreAppend(ps, p) == Append(ps, p)

\* Lines 109-127: the dict of one patient.  gender, surgeon, allergies,
\* medications, notes and registration_date are stored as entered and read
\* by no computation; they are left out.
PatientDict(patient_id, name, f, bmi) ==
    [id |-> patient_id, name |-> name, age |-> f.age, height |-> f.height,
     weight |-> f.weight, bmi |-> bmi, surgery_date |-> f.surgery_date,
     surgery_type |-> f.surgery_type, asa_class |-> f.asa_class,
     emergency |-> f.emergency, comorbidities |-> f.comorbidities]

\* Lines 71-130
patient_registration ==
    \E submitted \in BOOLEAN, name \in RegNames, f \in RegForms :
      \E bmi \in RoundedBmi(f.height, f.weight) :
        IF Accepted(submitted, name)
        THEN /\ Len(patients) < MaxPatients
             /\ LET patient_id == NextId(patients)
                IN /\ patients' = StoreAppend(patients,
                                      PatientDict(patient_id, name, f, bmi))
                   /\ outcome' = [page |-> "Patient Registration",
                                  kind |-> "registered",
                                  submitted |-> submitted, name |-> name,
                                  id |-> patient_id]
             /\ UNCHANGED <<args, score, category, pc>>
        ELSE /\ outcome' = [page |-> "Patient Registration",
                            kind |-> "form",
                            submitted |-> submitted, name |-> name]
             /\ UNCHANGED <<patients, args, score, category, pc>>

\* Lines 135, 215, 270 with the test dropped
NoPatients_never(ps) == FALSE

\* Lines 135, 215, 270: if not st.session_state.patients
NoPatients(ps) == ps = <<>>

\* Line 140: f"{p['name']} (ID: {p['id']})"
PatientLabel(p) ==
    p.name \o <<" ", "(", "I", "D", ":", " ">> \o IntToStr(p.id) \o <<")">>

IdMarker == <<"I", "D", ":", " ">>

\* Line 144: selected.split("ID: ")[1].split(")")[0], the text int() is given
LabelIdText(selected) == Split(Split(selected, IdMarker)[2], <<")">>)[1]

\* Line 145: the patients the generator of next() yields, in list order
Matching(ps, patient_id) ==
    SelectSeq(ps, LAMBDA p : p.id = patient_id)

RiskScoreOf(p) ==
    calculate_risk_score(p.age, p.bmi, p.comorbidities, p.surgery_type,
                         p.asa_class)

RiskCategoryOf(p) == get_risk_category(RiskScoreOf(p))

\* Lines 171-177: the breakdown chart's factors
Factors(p) ==
    [age |-> Min(p.age \div 10, 7),
     bmi |-> IF p.bmi > 3000 THEN 4 ELSE IF p.bmi < 1850 THEN 3 ELSE 1,
     comorbidities |-> Cardinality(p.comorbidities) * 2,
     surgery |-> SurgeryScore(p.surgery_type),
     asa |-> p.asa_class * 2]

\* Lines 186-207: how many recommendations are written
Recommendations(cat) == IF cat = "Low" THEN 1 ELSE 3

\* Lines 132-210
risk_assessment ==
    /\ IF NoPatients(patients)
       THEN outcome' = [page |-> "Risk Assessment", kind |-> "no_data"]
       ELSE \E k \in 1..Len(patients) :
              LET selected == PatientLabel(patients[k])
                  text == LabelIdText(selected)
              IN IF ~IntParses(text)
                 THEN outcome' = [page |-> "Risk Assessment",
                                  kind |-> "ValueError", selected |-> k]
                 ELSE LET found == Matching(patients, ParseInt(text))
                      IN IF found = <<>>
                         THEN outcome' = [page |-> "Risk Assessment",
                                          kind |-> "StopIteration",
                                          selected |-> k]
                         ELSE LET patient == found[1]
                                  risk_score == RiskScoreOf(patient)
                                  risk_category == get_risk_category(risk_score)
                              IN outcome' =
                                   [page |-> "Risk Assessment",
                                    kind |-> "assessment",
                                    selected |-> k,
                                    patient |-> patient,
                                    matches |-> Len(found),
                                    risk_score |-> risk_score,
                                    risk_category |-> risk_category,
                                    mortality_risk |-> Min(risk_score * 5, 150),
                                    factors |-> Factors(patient),
                                    recommendations |->
                                        Recommendations(risk_category)]
    /\ UNCHANGED <<patients, args, score, category, pc>>

\* Lines 212-265
dashboard ==
    /\ IF NoPatients(patients)
       THEN outcome' = [page |-> "Dashboard", kind |-> "no_data"]
       ELSE LET rows == DOMAIN patients
                present == {RiskCategoryOf(patients[i]) : i \in rows}
            IN outcome' =
                 [page |-> "Dashboard", kind |-> "stats",
                  total |-> Len(patients),
                  high_risk |-> Cardinality({i \in rows :
                      RiskCategoryOf(patients[i]) \in {"High", "Critical"}}),
                  age_sum |-> SumOver([i \in rows |-> patients[i].age], rows),
                  emergency_count |-> Cardinality({i \in rows :
                      patients[i].emergency}),
                  risk_counts |-> [c \in present |-> Cardinality({i \in rows :
                      RiskCategoryOf(patients[i]) = c})]]
    /\ UNCHANGED <<patients, args, score, category, pc>>

SortKeys == {"name", "age", "risk_score", "surgery_date"}

\* A row of the DataFrame of lines 275-283: the patient, the index label
\* (the position in the list) and the two added columns.
Row(ps, i) ==
    [index |-> i, patient |-> ps[i], risk_score |-> RiskScoreOf(ps[i]),
     risk_category |-> RiskCategoryOf(ps[i])]

\* The mask of lines 301-304 with | in place of &
RowSelected_either(row, risk_filter, surgery_filter) ==
    \/ row.risk_category \in risk_filter
    \/ row.patient.surgery_type \in surgery_filter

\* Lines 301-304: the mask of the filter
RowSelected(row, risk_filter, surgery_filter) ==
    /\ row.risk_category \in risk_filter
    /\ row.patient.surgery_type \in surgery_filter

\* Whether row a sorts strictly after row b: a descending sort
KeyLess_descending(a, b, sort_by) ==
    CASE sort_by = "name" -> StrLess(b.patient.name, a.patient.name)
      [] sort_by = "age" -> b.patient.age < a.patient.age
      [] sort_by = "risk_score" -> b.risk_score < a.risk_score
      [] sort_by = "surgery_date" -> b.patient.surgery_date < a.patient.surgery_date

\* The order sort_values(sort_by) sorts by: the column's values compared
\* with <
KeyLess(a, b, sort_by) ==
    CASE sort_by = "name" -> StrLess(a.patient.name, b.patient.name)
      [] sort_by = "age" -> a.patient.age < b.patient.age
      [] sort_by = "risk_score" -> a.risk_score < b.risk_score
      [] sort_by = "surgery_date" -> a.patient.surgery_date < b.patient.surgery_date

Orderings(n) ==
    {f \in [1..n -> 1..n] : \A i, j \in 1..n : f[i] = f[j] => i = j}

\* Line 304: DataFrame.sort_values(sort_by) with the default kind, which is
\* quicksort and not stable: the result is ascending in the key, and rows
\* with equal keys may come out in any order.
SortValues(rows, sort_by) ==
    {[i \in 1..Len(rows) |-> rows[f[i]]] : f \in
        {g \in Orderings(Len(rows)) :
            \A i, j \in 1..Len(rows) :
                i < j => ~KeyLess(rows[g[j]], rows[g[i]], sort_by)}}

\* Lines 267-310.  The two multiselects offer the values present in the
\* columns, and any subset of them can be chosen.
patient_records ==
    /\ IF NoPatients(patients)
       THEN outcome' = [page |-> "Patient Records", kind |-> "no_data"]
       ELSE LET df == [i \in 1..Len(patients) |-> Row(patients, i)]
            IN \E risk_filter \in SUBSET {df[i].risk_category : i \in DOMAIN df},
                  surgery_filter \in
                      SUBSET {df[i].patient.surgery_type : i \in DOMAIN df},
                  sort_by \in SortKeys :
                 \E filtered_df \in
                      SortValues(SelectSeq(df, LAMBDA row :
                          RowSelected(row, risk_filter, surgery_filter)),
                          sort_by) :
                   outcome' = [page |-> "Patient Records", kind |-> "records",
                               risk_filter |-> risk_filter,
                               surgery_filter |-> surgery_filter,
                               sort_by |-> sort_by,
                               rows |-> filtered_df]
    /\ UNCHANGED <<patients, args, score, category, pc>>

\* State after lines 12-13, before any page has run
Init ==
    /\ patients = <<>>
    /\ outcome = [page |-> "none", kind |-> "start"]
    /\ args = NoArgs
    /\ score = 0
    /\ category = ""
    /\ pc = "idle"

\* Lines 53-69: main() runs the page the sidebar selects
Next ==
    \/ patient_registration
    \/ risk_assessment
    \/ dashboard
    \/ patient_records

Spec == Init /\ [][Next]_vars

-----------------------------------------------------------------------------
(* SpecScore: the two functions of SurgeryRiskCalculator applied to inputs *)

InitScore ==
    /\ patients = <<>>
    /\ outcome = [page |-> "none", kind |-> "start"]
    /\ category = ""
    /\ \/ pc = "args" /\ args \in ArgSpace /\ score = 0
       \/ pc = "probe" /\ args = NoArgs /\ score \in (0 - MaxProbe)..MaxProbe

CalculateRiskScore ==
    /\ pc = "args"
    /\ score' = calculate_risk_score(args.age, args.bmi, args.comorbidities,
                                     args.surgery_type, args.asa_class)
    /\ pc' = "scored"
    /\ UNCHANGED <<patients, outcome, args, category>>

GetRiskCategory ==
    /\ pc \in {"scored", "probe"}
    /\ category' = get_risk_category(score)
    /\ pc' = IF pc = "scored" THEN "scored_classified" ELSE "probe_classified"
    /\ UNCHANGED <<patients, outcome, args, score>>

NextScore == CalculateRiskScore \/ GetRiskCategory

SpecScore == InitScore /\ [][NextScore]_vars

-----------------------------------------------------------------------------
(* Properties *)

Scored == pc \in {"scored", "scored_classified"}

Classified == pc \in {"scored_classified", "probe_classified"}

DataPages == {"Risk Assessment", "Dashboard", "Patient Records"}

\* C1: the ids of the stored records are pairwise distinct and strictly
\* increasing in insertion order, whatever registrations were attempted.
C1_IdsStrictlyIncreasing ==
    \A i, j \in DOMAIN patients : i < j => patients[i].id < patients[j].id

C1_Witness ==
    /\ Len(patients) >= 2
    /\ outcome.page = "Patient Registration"
    /\ outcome.kind = "form"

\* C2: a registration submitted with an empty name leaves the store as it
\* was and consumes no id (a registration that succeeds gets the id that
\* the count before it gives), and no stored record is ever partial.
C2_EmptyNameLeavesStore ==
    [][ /\ (outcome'.page = "Patient Registration" /\ outcome'.submitted
                /\ outcome'.name = <<>>)
            => (patients' = patients /\ outcome'.kind = "form")
        /\ outcome'.kind = "registered"
            => (/\ outcome'.id = Len(patients) + 1
                /\ patients'[Len(patients')].id = outcome'.id)
        /\ \A i \in DOMAIN patients' :
              /\ patients'[i].name # <<>>
              /\ DOMAIN patients'[i] =
                    {"id", "name", "age", "height", "weight", "bmi",
                     "surgery_date", "surgery_type", "asa_class",
                     "emergency", "comorbidities"} ]_vars

C2_Witness ==
    /\ patients # <<>>
    /\ outcome.page = "Patient Registration"
    /\ outcome.submitted
    /\ outcome.name = <<>>

\* C3: for every valid input calculate_risk_score returns an integer in
\* 0..30.
C3_ScoreInRange == Scored => score \in 0..30

C3_Witness ==
    /\ pc = "scored"
    /\ score = 30
    /\ AgeFactor(args.age) + Cardinality(args.comorbidities) * 2
          + SurgeryScore(args.surgery_type) + args.asa_class * 2 > 30

\* The BMI contribution as C4 states it: > 35 is tested before > 30.
BmiContributionClaimed(bmi) ==
    IF bmi < 1850 THEN 3
    ELSE IF bmi > 3500 THEN 6
    ELSE IF bmi > 3000 THEN 4
    ELSE 0

\* C4: the BMI contribution to the score is 3 below 18.5, 6 above 35, 4 in
\* (30, 35] and 0 otherwise.
C4_BmiContribution ==
    Scored =>
        score = Min(AgeFactor(args.age) + BmiContributionClaimed(args.bmi)
                        + Cardinality(args.comorbidities) * 2
                        + SurgeryScore(args.surgery_type)
                        + args.asa_class * 2, 30)

\* C5: get_risk_category maps every integer score to one of four contiguous
\* bands (<= 8 Low, 9..15 Moderate, 16..22 High, > 22 Critical), with the
\* boundary values 8, 9, 15, 16, 22, 23 as documented, and the category
\* never decreases as the score grows.
C5_CategoryBands ==
    Classified =>
        /\ category \in Categories
        /\ category = "Low" <=> score <= 8
        /\ category = "Moderate" <=> score \in 9..15
        /\ category = "High" <=> score \in 16..22
        /\ category = "Critical" <=> score > 22
        /\ score = 8 => category = "Low"
        /\ score = 9 => category = "Moderate"
        /\ score = 15 => category = "Moderate"
        /\ score = 16 => category = "High"
        /\ score = 22 => category = "High"
        /\ score = 23 => category = "Critical"
        /\ \A t \in (0 - MaxProbe)..MaxProbe :
              t <= score =>
                  CategoryRank(get_risk_category(t)) <= CategoryRank(category)

C5_Witness == pc = "probe_classified" /\ score = 8 /\ category = "Low"

\* C6: the records query returns exactly the stored records whose computed
\* risk category is in the risk filter and whose surgery type is in the
\* surgery filter, each once, and nothing when either filter is empty.
C6_FilterExact ==
    outcome.kind = "records" =>
        LET rows == outcome.rows
        IN /\ \A i \in DOMAIN rows :
                /\ rows[i].index \in DOMAIN patients
                /\ rows[i].patient = patients[rows[i].index]
                /\ get_risk_category(calculate_risk_score(
                       rows[i].patient.age, rows[i].patient.bmi,
                       rows[i].patient.comorbidities,
                       rows[i].patient.surgery_type,
                       rows[i].patient.asa_class)) \in outcome.risk_filter
                /\ rows[i].patient.surgery_type \in outcome.surgery_filter
           /\ \A i, j \in DOMAIN rows :
                rows[i].index = rows[j].index => i = j
           /\ \A k \in DOMAIN patients :
                (/\ RiskCategoryOf(patients[k]) \in outcome.risk_filter
                 /\ patients[k].surgery_type \in outcome.surgery_filter)
                    => \E i \in DOMAIN rows : rows[i].index = k
           /\ (outcome.risk_filter = {} \/ outcome.surgery_filter = {})
                => rows = <<>>

C6_Witness ==
    /\ outcome.kind = "records"
    /\ outcome.rows # <<>>
    /\ Len(outcome.rows) < Len(patients)

\* Whether row a may stand before row b in an ascending order of the key.
KeyAscending(a, b, sort_by) ==
    CASE sort_by = "name" -> ~StrLess(b.patient.name, a.patient.name)
      [] sort_by = "age" -> a.patient.age <= b.patient.age
      [] sort_by = "risk_score" ->
            RiskScoreOf(a.patient) <= RiskScoreOf(b.patient)
      [] sort_by = "surgery_date" ->
            a.patient.surgery_date <= b.patient.surgery_date

\* C7 as stated: the records query's result is ascending in the sort key and
\* rows with equal keys keep their insertion order.
C7_SortedStable ==
    outcome.kind = "records" =>
        \A i, j \in DOMAIN outcome.rows :
            i < j =>
                /\ KeyAscending(outcome.rows[i], outcome.rows[j],
                                outcome.sort_by)
                /\ KeyAscending(outcome.rows[j], outcome.rows[i],
                                outcome.sort_by)
                      => outcome.rows[i].index < outcome.rows[j].index

\* C7 (amended): the records query's result is in ascending order of the
\* sort key, the score key being the computed numeric risk score; the order
\* of rows with equal keys is not determined.
C7_SortedAscending ==
    outcome.kind = "records" =>
        \A i, j \in DOMAIN outcome.rows :
            i < j => KeyAscending(outcome.rows[i], outcome.rows[j],
                                  outcome.sort_by)

C7_Witness ==
    /\ outcome.kind = "records"
    /\ Len(outcome.rows) >= 2
    /\ outcome.rows[1].index > outcome.rows[2].index
    /\ ~KeyAscending(outcome.rows[2], outcome.rows[1], outcome.sort_by)

\* C8: on an empty store the assessment, dashboard and records pages end in
\* the no-data outcome; statistics are never computed over zero patients,
\* and on a non-empty store the dashboard yields statistics whose total is
\* the number of patients.
C8_EmptyStoreNoData ==
    /\ (patients = <<>> /\ outcome.page \in DataPages)
          => outcome.kind = "no_data"
    /\ outcome.kind = "stats" => (outcome.total >= 1 /\ patients # <<>>)
    /\ (patients # <<>> /\ outcome.page = "Dashboard")
          => (outcome.kind = "stats" /\ outcome.total = Len(patients))

C8_Witness ==
    /\ patients = <<>>
    /\ outcome.page = "Dashboard"
    /\ outcome.kind = "no_data"

\* C9: the store is append-only: only a successful registration changes it,
\* it adds one record at the end and leaves the records before it and their
\* order as they were, and the other pages leave the store unchanged.
C9_AppendOnly ==
    [][ /\ outcome'.page \in DataPages => patients' = patients
        /\ patients' # patients
              => /\ outcome'.page = "Patient Registration"
                 /\ outcome'.kind = "registered"
                 /\ Len(patients') = Len(patients) + 1
                 /\ SubSeq(patients', 1, Len(patients)) = patients
        /\ Len(patients') >= Len(patients) ]_vars

C9_Witness ==
    /\ outcome.kind = "registered"
    /\ Len(patients) >= 2

\* C10: the record at position k has id k, and the id lookup of the
\* assessment page finds exactly one record for any patient of its
\* selection list and never fails.
C10_LookupFindsOne ==
    /\ \A k \in DOMAIN patients : patients[k].id = k
    /\ (outcome.page = "Risk Assessment" /\ patients # <<>>)
          => (outcome.kind = "assessment" /\ outcome.matches = 1)

====
